---- MODULE Spec2Model ----
(***************************************************************************)
(* Model of app.py, the pronoun pro-drop annotation form: one browser      *)
(* session of the Streamlit script, the two Supabase tables it writes, and *)
(* a second session that reads the annotations table while the first one   *)
(* is saving.                                                               *)
(*                                                                         *)
(* Conventions.  Free text (annotator name, pronoun text) is a sequence of *)
(* one-character strings so that str.strip() can be computed.  A session   *)
(* key that may be absent (or None) is a set with at most one element.     *)
(* A Python dict is a TLA+ record; dict.get(k, d) is Get(rec, k, d).       *)
(* The sentence file is not part of the sources: SentencesDf is a small    *)
(* well-formed instance (string poem IDs, integer sentence ids, one author *)
(* per poem).  Table rows are kept in insertion order.                     *)
(***************************************************************************)
EXTENDS Integers, Sequences, FiniteSets, TLC

VARIABLES
    db_annotations,   \* Supabase table "annotations": sequence of rows
    db_perspectives,  \* Supabase table "poem_perspectives": set of rows
    ss,               \* st.session_state and the widget states of the session
    save,             \* save_annotations_for_sentence in progress (its locals)
    notice,           \* the outcome the last run reported (stop, save or rejection message)
    reader,           \* result of a load_annotations issued by a second session
    n_events,         \* number of user interactions so far
    px                \* inputs and outputs of the export / progress functions (SpecPure)

vars == <<db_annotations, db_perspectives, ss, save, notice, reader, n_events, px>>

-----------------------------------------------------------------------------
(* Bounds *)

MaxPronouns == 2
MaxEvents == 7
MaxAnnots == 3

-----------------------------------------------------------------------------
(* Generic helpers *)

None == {}
Some(x) == {x}
The(o) == CHOOSE x \in o : TRUE

Get(rec, k, d) == IF k \in DOMAIN rec THEN rec[k] ELSE d

Min(a, b) == IF a <= b THEN a ELSE b
Max(a, b) == IF a >= b THEN a ELSE b

RECURSIVE LStrip(_)
LStrip(t) == IF t # <<>> /\ Head(t) = " " THEN LStrip(Tail(t)) ELSE t

RECURSIVE RStrip(_)
RStrip(t) == IF t # <<>> /\ t[Len(t)] = " " THEN RStrip(SubSeq(t, 1, Len(t) - 1)) ELSE t

\* str.strip()
Strip(t) == RStrip(LStrip(t))

RemoveAt(seq, i) == SubSeq(seq, 1, i - 1) \o SubSeq(seq, i + 1, Len(seq))

-----------------------------------------------------------------------------
(* Program constants and the sentence file *)

OUTPUT_COLUMNS ==
    << "ID", "author", "date", "Language", "text", "Theme",
       "pronoun", "lemma", "uk_match_pos", "position", "context",
       "person", "number", "gender", "case", "is_dropped", "en_reference",
       "shakespeare_text", "gpt_annotations" >>

PERSON_OPTIONS == << "1st", "2nd", "3rd", "Impersonal" >>
NUMBER_OPTIONS == << "Singular", "Plural", "None" >>
PERSPECTIVE_OPTIONS == << "1st person", "2nd person", "3rd person", "Mixed", "Other" >>
PERSPECTIVE_SECONDARY_OPTIONS == << "None" >> \o PERSPECTIVE_OPTIONS

Range(seq) == { seq[i] : i \in 1..Len(seq) }

\* load_sentences(): poem P1 has two sentences, poem P2 has one.
SentencesDf ==
    << [ID |-> "P1", author |-> "A", date |-> "1900", Language |-> "Ukrainian",
        context |-> "poem one", Theme |-> "t1", sentence_id |-> 0, sentence |-> "s10"],
       [ID |-> "P1", author |-> "A", date |-> "1900", Language |-> "Ukrainian",
        context |-> "poem one", Theme |-> "t1", sentence_id |-> 1, sentence |-> "s11"],
       [ID |-> "P2", author |-> "B", date |-> "1910", Language |-> "Ukrainian",
        context |-> "poem two", Theme |-> "t2", sentence_id |-> 0, sentence |-> "s20"] >>

AllAuthors == { SentencesDf[i].author : i \in 1..Len(SentencesDf) }

\* (str(row["ID"]), int(row["sentence_id"]) if pd.notna(...) else 0)
SentKey(row) == << row.ID, row.sentence_id >>

-----------------------------------------------------------------------------
(* Inputs the user can type or pick *)

NameInputs == { <<" ">>, <<"a">>, <<"b", " ">> }
TextInputs == { <<" ">>, <<"y", " ">> }
PersonInputs == { "3rd" }

-----------------------------------------------------------------------------
(* The annotations table *)

\* .eq("annotator_id", a).eq("poem_id", p).eq("sentence_id", s)
RowMatches(r, a, poem, sid) ==
    r.annotator_id = a /\ r.poem_id = poem /\ r.sentence_id = sid

\* select("*").eq("annotator_id", annotator_id)
SelectAnnotations(table, a) == SelectSeq(table, LAMBDA r : r.annotator_id = a)

\* one loaded row as the dict load_annotations builds
LoadedRec(row) ==
    IF row.no_pronoun
    THEN [ID |-> row.poem_id, sentence_id |-> row.sentence_id, no_pronoun |-> TRUE]
    ELSE [ID |-> row.poem_id, sentence_id |-> row.sentence_id, no_pronoun |-> FALSE,
          pronoun |-> row.pronoun, lemma |-> row.lemma, person |-> row.person,
          number |-> row.number, is_dropped |-> row.is_dropped,
          position |-> row.position]

load_annotations(table, a) ==
    LET rows == SelectAnnotations(table, a)
    IN  [i \in 1..Len(rows) |-> LoadedRec(rows[i])]

\* Variants with a fault, used to see that the properties below detect it:
\* a delete that removes nothing, and one that ignores the sentence_id filter.
DeleteSentenceRows_Nothing(table, a, poem, sid) == table

DeleteSentenceRows_WholePoem(table, a, poem, sid) ==
    SelectSeq(table, LAMBDA r : ~(r.annotator_id = a /\ r.poem_id = poem))

\* delete().eq(...).eq(...).eq(...)
DeleteSentenceRows(table, a, poem, sid) ==
    SelectSeq(table, LAMBDA r : ~RowMatches(r, a, poem, sid))

\* the row dict built from one record in save_annotations_for_sentence
InsertedRow(a, rec) ==
    IF Get(rec, "no_pronoun", FALSE)
    THEN [annotator_id |-> a, poem_id |-> rec.ID,
          sentence_id |-> Get(rec, "sentence_id", 0), no_pronoun |-> TRUE]
    ELSE [annotator_id |-> a, poem_id |-> rec.ID,
          sentence_id |-> Get(rec, "sentence_id", 0), no_pronoun |-> FALSE,
          pronoun |-> Get(rec, "pronoun", <<>>),
          lemma |-> Get(rec, "lemma", Get(rec, "pronoun", <<>>)),
          person |-> Get(rec, "person", ""),
          number |-> Get(rec, "number", ""),
          is_dropped |-> Get(rec, "is_dropped", TRUE),
          position |-> Get(rec, "position", Get(rec, "sentence_id", 0))]

get_reviewed_sentences(annotations) ==
    { << annotations[i].ID, Get(annotations[i], "sentence_id", 0) >> :
        i \in 1..Len(annotations) }

-----------------------------------------------------------------------------
(* The poem_perspectives table *)

load_poem_perspectives(table, a) ==
    LET rows == { r \in table : r.annotator_id = a }
    IN  [p \in { r.poem_id : r \in rows } |->
            LET row == CHOOSE r \in rows : r.poem_id = p
            IN  [perspective_primary |-> row.perspective_primary,
                 perspective_secondary |-> row.perspective_secondary,
                 author |-> row.author, date |-> row.poem_date]]

PerspectiveRow(a, poem, data) ==
    [annotator_id |-> a, poem_id |-> poem,
     perspective_primary |-> Get(data, "perspective_primary", ""),
     perspective_secondary |-> Get(data, "perspective_secondary", ""),
     author |-> Get(data, "author", ""), poem_date |-> Get(data, "date", "")]

\* Variant with a fault: a plain insert instead of the upsert.
UpsertPerspective_Insert(table, row) == table \cup { row }

\* upsert(row, on_conflict="annotator_id,poem_id")
UpsertPerspective(table, row) ==
    { r \in table : ~(r.annotator_id = row.annotator_id /\ r.poem_id = row.poem_id) }
        \cup { row }

-----------------------------------------------------------------------------
(* Progress *)

\* Variant with a fault: one reviewed sentence is enough.
is_poem_fully_annotated_Any(poem_id, display_df, reviewed) ==
    LET poem_sents == SelectSeq(display_df, LAMBDA r : r.ID = poem_id)
    IN  \E i \in 1..Len(poem_sents) : SentKey(poem_sents[i]) \in reviewed

is_poem_fully_annotated(poem_id, display_df, reviewed) ==
    LET poem_sents == SelectSeq(display_df, LAMBDA r : r.ID = poem_id)
    IN  /\ poem_sents # <<>>
        /\ \A i \in 1..Len(poem_sents) : SentKey(poem_sents[i]) \in reviewed

-----------------------------------------------------------------------------
(* CSV export *)

\* The first sentence row with this poem ID and sentence_id, if any (sent.iloc[0]).
MatchingSentences(sentences_df, a) ==
    SelectSeq(sentences_df, LAMBDA r : r.ID = a.ID /\ r.sentence_id = a.sentence_id)

\* Variant with a fault: the lemma column repeats the pronoun.
pronoun_row_to_output_LemmaIsPronoun(row, sentence_row) ==
    [c \in Range(OUTPUT_COLUMNS) |->
        CASE c = "ID" -> sentence_row.ID
          [] c = "context" -> sentence_row.sentence
          [] c \in {"pronoun", "lemma"} -> row.pronoun
          [] c = "position" -> row.position
          [] c = "person" -> row.person
          [] c = "number" -> row.number
          [] c = "is_dropped" -> row.is_dropped
          [] OTHER -> ""]

pronoun_row_to_output(row, sentence_row) ==
    [c \in Range(OUTPUT_COLUMNS) |->
        CASE c = "ID" -> sentence_row.ID
          [] c = "author" -> sentence_row.author
          [] c = "date" -> sentence_row.date
          [] c = "Language" -> Get(sentence_row, "Language", "Ukrainian")
          [] c = "text" -> sentence_row.context
          [] c = "Theme" -> Get(sentence_row, "Theme", "")
          [] c = "pronoun" -> row.pronoun
          [] c = "lemma" -> Get(row, "lemma", row.pronoun)
          [] c = "uk_match_pos" -> Get(row, "uk_match_pos", "")
          [] c = "position" -> Get(row, "position", Get(row, "sentence_id", ""))
          [] c = "context" -> sentence_row.sentence
          [] c = "person" -> Get(row, "person", "")
          [] c = "number" -> Get(row, "number", "")
          [] c = "gender" -> Get(row, "gender", "")
          [] c = "case" -> Get(row, "case", "")
          [] c = "is_dropped" -> Get(row, "is_dropped", TRUE)
          [] c = "en_reference" -> Get(row, "en_reference", "")
          [] c = "shakespeare_text" -> ""
          [] c = "gpt_annotations" -> ""]

\* DataFrame.to_csv writes a boolean as True / False and an integer in decimal
CsvCell(c, v) ==
    IF c = "is_dropped" THEN (IF v THEN "True" ELSE "False")
    ELSE IF c = "position" THEN ToString(v)
    ELSE v

\* one line of the file: the cells of df[OUTPUT_COLUMNS], a missing column as ""
CsvLine(out) ==
    [i \in 1..Len(OUTPUT_COLUMNS) |->
        CsvCell(OUTPUT_COLUMNS[i], Get(out, OUTPUT_COLUMNS[i], ""))]

\* Variant with a fault: the markers are not filtered out.
build_export_csv_KeepMarkers(annotations, sentences_df) ==
    LET matched == SelectSeq(annotations,
                             LAMBDA a : MatchingSentences(sentences_df, a) # <<>>)
        rows == [i \in 1..Len(matched) |->
                    pronoun_row_to_output(matched[i] @@ [pronoun |-> <<>>],
                                          MatchingSentences(sentences_df, matched[i])[1])]
    IN  IF annotations = <<>> THEN <<>>
        ELSE << OUTPUT_COLUMNS >> \o [i \in 1..Len(rows) |-> CsvLine(rows[i])]

\* The file as its sequence of lines, the header first; "" is the empty sequence.
build_export_csv(annotations, sentences_df) ==
    LET pronoun_annots == SelectSeq(annotations, LAMBDA a : ~Get(a, "no_pronoun", FALSE))
        matched == SelectSeq(pronoun_annots,
                             LAMBDA a : MatchingSentences(sentences_df, a) # <<>>)
        rows == [i \in 1..Len(matched) |->
                    pronoun_row_to_output(matched[i],
                                          MatchingSentences(sentences_df, matched[i])[1])]
    IN  IF pronoun_annots = <<>> THEN <<>>
        ELSE << OUTPUT_COLUMNS >> \o [i \in 1..Len(rows) |-> CsvLine(rows[i])]

\* Reading the file back: the cells are taken by column name, True / False and the
\* decimal position are parsed.  The sources hold no importer.
ColumnOf(header, name) == CHOOSE i \in 1..Len(header) : header[i] = name

ParsePosition(cell) ==
    CHOOSE n \in { SentencesDf[i].sentence_id : i \in 1..Len(SentencesDf) } :
        ToString(n) = cell

ReimportCsv(csv) ==
    IF csv = <<>> THEN <<>>
    ELSE LET header == csv[1]
             Cell(line, name) == line[ColumnOf(header, name)]
         IN  [i \in 1..(Len(csv) - 1) |->
                LET line == csv[i + 1]
                IN  [ID |-> Cell(line, "ID"), sentence |-> Cell(line, "context"),
                     pronoun |-> Cell(line, "pronoun"), lemma |-> Cell(line, "lemma"),
                     person |-> Cell(line, "person"), number |-> Cell(line, "number"),
                     is_dropped |-> (Cell(line, "is_dropped") = "True"),
                     position |-> ParsePosition(Cell(line, "position"))]]

-----------------------------------------------------------------------------
(* The script, main(): one run from the top without any button pressed *)

\* sentences_df filtered by the author multiselect and the poem selectbox
DisplayDf(s) ==
    LET by_author == SelectSeq(SentencesDf, LAMBDA r : r.author \in s.author_filter)
    IN  IF s.poem_id_filter = "All" THEN by_author
        ELSE SelectSeq(by_author, LAMBDA r : r.ID = s.poem_id_filter)

\* the annotations of the session for one sentence row (existing) ...
Existing(annotations, row) ==
    SelectSeq(annotations,
              LAMBDA a : a.ID = row.ID /\ Get(a, "sentence_id", 0) = row.sentence_id)

\* ... and the pronoun rows among them (existing_pronouns)
ExistingPronouns(annotations, row) ==
    SelectSeq(Existing(annotations, row), LAMBDA a : ~Get(a, "no_pronoun", FALSE))

\* The values the four widgets of one entry show when they have no state yet.
WidgetDefault(p) ==
    [pronoun |-> Get(p, "pronoun", <<>>),
     person |-> IF Get(p, "person", "") \in Range(PERSON_OPTIONS)
                THEN p.person ELSE PERSON_OPTIONS[1],
     number |-> IF Get(p, "number", "") \in Range(NUMBER_OPTIONS)
                THEN p.number ELSE NUMBER_OPTIONS[1],
     is_dropped |-> Get(p, "is_dropped", TRUE)]

\* Widgets that are not rendered in a run lose their state when the run ends.
DropEntryWidgets(s) == [s EXCEPT !.widgets = <<>>, !.widgets_key = None]

DropBodyWidgets(s) == [DropEntryWidgets(s) EXCEPT !.radio_key = None]

\* st.stop() at the name check: only the name input was rendered.
Stopped(s) ==
    [DropBodyWidgets(s) EXCEPT !.nav_idx_input = None,
                               !.author_filter = AllAuthors,
                               !.poem_id_filter = "All"]

\* lines 252-265: identity, forced navigation, first load
ScriptHead(s, table, ptable) ==
    LET annotator_id == Strip(s.name_input)
        s1 == [s EXCEPT !.annotator_name = annotator_id]
        s2 == IF s1.force_nav_idx # None
              THEN [s1 EXCEPT !.nav_idx = s1.force_nav_idx,
                              !.nav_idx_input = s1.force_nav_idx,
                              !.force_nav_idx = None]
              ELSE s1
    IN  IF ~s2.annotations_loaded \/ s2.annotator_name # annotator_id
        THEN [s2 EXCEPT !.annotations = load_annotations(table, annotator_id),
                        !.poem_perspectives = load_poem_perspectives(ptable, annotator_id),
                        !.annotations_loaded = TRUE,
                        !.annotator_name = annotator_id,
                        !.anns_owner = Some(annotator_id),
                        !.persp_owner = Some(annotator_id)]
        ELSE s2

\* st.number_input(min_value=0, max_value=max(0, total - 1), value=nav_idx) raises
\* when the value is outside the range.
NavRaises(h) ==
    LET total == Len(DisplayDf(h))
        value == IF h.nav_idx = None THEN 0 ELSE The(h.nav_idx)
    IN  value < 0 \/ value > Max(0, total - 1)

\* lines 291-294
Nav(h) ==
    LET value == IF h.nav_idx = None THEN 0 ELSE The(h.nav_idx)
        idx == IF h.nav_idx_input # None THEN The(h.nav_idx_input) ELSE value
    IN  [h EXCEPT !.nav_idx = Some(idx), !.nav_idx_input = Some(idx)]

\* lines 321-325: the Yes/No radio of the sentence
Radio(n, row) ==
    LET key == SentKey(row)
        default_has == IF ExistingPronouns(n.annotations, row) # <<>> THEN "Yes" ELSE "No"
    IN  IF n.radio_key = Some(key) THEN n
        ELSE [n EXCEPT !.radio_key = Some(key), !.radio_val = default_has]

\* lines 336-350: the in-progress list and its entry widgets
Entries(r, row) ==
    LET key == SentKey(row)
        cp0 == IF r.current_pronouns = None \/ r.current_sent_key # Some(key)
               THEN ExistingPronouns(r.annotations, row)
               ELSE The(r.current_pronouns)
        w == IF r.widgets_key = Some(key) THEN r.widgets ELSE <<>>
        shown == [i \in 1..Len(cp0) |->
                    IF i <= Len(w) THEN w[i] ELSE WidgetDefault(cp0[i])]
        cp1 == [i \in 1..Len(cp0) |-> shown[i] @@ cp0[i]]
    IN  [r EXCEPT !.current_pronouns = Some(cp1), !.current_sent_key = Some(key),
                  !.widgets = shown, !.widgets_key = Some(key)]

\* from the radio to the end of the script
Body(n, row) ==
    LET r == Radio(n, row)
    IN  IF r.radio_val = "Yes" THEN Entries(r, row) ELSE DropEntryWidgets(r)

Render(s, table, ptable) ==
    IF Strip(s.name_input) = <<>> THEN Stopped(s)
    ELSE LET h == ScriptHead(s, table, ptable)
         IN  IF NavRaises(h)
             THEN [h EXCEPT !.nav_idx = IF h.nav_idx = None THEN Some(0) ELSE h.nav_idx]
             ELSE LET n == Nav(h)
                      df == DisplayDf(n)
                  IN  IF df = <<>> THEN DropBodyWidgets(n)
                      ELSE Body(n, df[The(n.nav_idx) + 1])

-----------------------------------------------------------------------------
(* What the page shows in a state at rest *)

NavShown(s) == Strip(s.name_input) # <<>> /\ ~NavRaises(s)

\* the page got as far as the sentence form
Rendered(s) == NavShown(s) /\ s.nav_idx # None /\ DisplayDf(s) # <<>>

Idx(s) == The(s.nav_idx)
Total(s) == Len(DisplayDf(s))
Row(s) == DisplayDf(s)[Idx(s) + 1]
Reviewed(s) == get_reviewed_sentences(s.annotations)
YesShown(s) == Rendered(s) /\ s.radio_key = Some(SentKey(Row(s))) /\ s.radio_val = "Yes"
NoShown(s) == Rendered(s) /\ s.radio_key = Some(SentKey(Row(s))) /\ s.radio_val = "No"
Pronouns(s) == The(s.current_pronouns)

-----------------------------------------------------------------------------
(* Initial state *)

NoSave == [pc |-> "idle"]
NoRead == [valid |-> FALSE]
NoPx == [pc |-> "off"]

InitSession ==
    [name_input |-> <<>>, annotator_name |-> <<>>,
     annotations_loaded |-> FALSE, annotations |-> <<>>, poem_perspectives |-> <<>>,
     anns_owner |-> None, persp_owner |-> None,
     nav_idx |-> None, nav_idx_input |-> None, force_nav_idx |-> None,
     current_pronouns |-> None, current_sent_key |-> None,
     radio_key |-> None, radio_val |-> "No",
     widgets |-> <<>>, widgets_key |-> None,
     author_filter |-> AllAuthors, poem_id_filter |-> "All"]

Init ==
    /\ db_annotations = <<>>
    /\ db_perspectives = {}
    /\ ss = Stopped(InitSession)
    /\ save = NoSave
    /\ notice = "stop"
    /\ reader = NoRead
    /\ n_events = 0
    /\ px = NoPx

\* the script is not running and the user may still interact
Idle == save.pc \in {"idle", "failed"} /\ n_events < MaxEvents

\* what a run without a button press displays
NoticeOf(s) ==
    IF Strip(s.name_input) = <<>> THEN "stop"
    ELSE IF NavRaises(s) THEN "exception"
    ELSE IF DisplayDf(s) = <<>> THEN "no_data"
    ELSE "none"

\* What a select on a table can give the session: its rows, or nothing when the
\* request raises (load_annotations then returns [], load_poem_perspectives {}).
AnnotationsSeen == { db_annotations, <<>> }
PerspectivesSeen == { db_perspectives, {} }

\* a widget change or a rerun: the script runs on session state s
RunScript(s) ==
    /\ \E table \in AnnotationsSeen, ptable \in PerspectivesSeen :
          ss' = Render(s, table, ptable)
    /\ notice' = NoticeOf(ss')
    /\ save' = NoSave
    /\ reader' = NoRead
    /\ n_events' = (IF save.pc \in {"idle", "failed"} THEN n_events + 1 ELSE n_events)
    /\ UNCHANGED <<db_annotations, db_perspectives, px>>

-----------------------------------------------------------------------------
(* Widget changes *)

SetName(n) ==
    /\ Idle
    /\ n # ss.name_input
    /\ RunScript([ss EXCEPT !.name_input = n])

GoTo(i) ==
    /\ Idle
    /\ NavShown(ss)
    /\ i \in 0..Max(0, Total(ss) - 1)
    /\ ss.nav_idx # Some(i)
    /\ RunScript([ss EXCEPT !.nav_idx_input = Some(i)])

SetHasPronoun(v) ==
    /\ Idle
    /\ Rendered(ss)
    /\ v # ss.radio_val
    /\ RunScript([ss EXCEPT !.radio_val = v])

EditPronounText(i, t) ==
    /\ Idle
    /\ YesShown(ss)
    /\ i \in 1..Len(ss.widgets)
    /\ t # ss.widgets[i].pronoun
    /\ RunScript([ss EXCEPT !.widgets[i].pronoun = t])

EditPerson(i, v) ==
    /\ Idle
    /\ YesShown(ss)
    /\ i \in 1..Len(ss.widgets)
    /\ v # ss.widgets[i].person
    /\ RunScript([ss EXCEPT !.widgets[i].person = v])

-----------------------------------------------------------------------------
(* Buttons that end in st.rerun() *)

\* "Next": the run ends at line 298, before the sentence form is rendered
ClickNext ==
    /\ Idle
    /\ NavShown(ss)
    /\ LET n == Nav(ScriptHead(ss, db_annotations, db_perspectives))
           next_idx == Min(Idx(n) + 1, Total(n) - 1)
       IN  RunScript([DropBodyWidgets(n) EXCEPT !.force_nav_idx = Some(next_idx)])

\* "Add pronoun"
ClickAdd ==
    /\ Idle
    /\ YesShown(ss)
    /\ Len(Pronouns(ss)) < MaxPronouns
    /\ LET s == Render(ss, db_annotations, db_perspectives)
           new == [pronoun |-> <<>>, person |-> "1st", number |-> "Singular",
                   is_dropped |-> TRUE]
       IN  RunScript([s EXCEPT !.current_pronouns = Some(Append(Pronouns(s), new))])

\* "Delete" of entry i: the run ends inside the loop, after the widgets of entry i
ClickDelete(i) ==
    /\ Idle
    /\ YesShown(ss)
    /\ i \in 1..Len(Pronouns(ss))
    /\ LET s == Render(ss, db_annotations, db_perspectives)
       IN  RunScript([s EXCEPT !.current_pronouns = Some(RemoveAt(Pronouns(s), i)),
                               !.current_sent_key = None,
                               !.widgets = SubSeq(s.widgets, 1, i)])

-----------------------------------------------------------------------------
(* Saving a sentence *)

\* any(p.get("pronoun", "").strip() for p in pronouns)
HasValid(pronouns) ==
    \E i \in 1..Len(pronouns) : Strip(Get(pronouns[i], "pronoun", <<>>)) # <<>>

\* the record _do_save builds from one in-progress entry
SaveRecord(p, row) ==
    [ID |-> row.ID, sentence_id |-> row.sentence_id,
     pronoun |-> Strip(p.pronoun),
     lemma |-> Strip(Get(p, "lemma", p.pronoun)),
     person |-> Get(p, "person", ""),
     number |-> Get(p, "number", ""),
     is_dropped |-> Get(p, "is_dropped", TRUE),
     position |-> row.sentence_id]

\* Variant with a fault: blank entries are not dropped.
YesRecords_KeepBlank(pronouns, row) ==
    [i \in 1..Len(pronouns) |-> SaveRecord(pronouns[i], row)]

\* records of _do_save: the entries with non-blank text, in order
YesRecords(pronouns, row) ==
    LET kept == SelectSeq(pronouns, LAMBDA p : Strip(Get(p, "pronoun", <<>>)) # <<>>)
    IN  [i \in 1..Len(kept) |-> SaveRecord(kept[i], row)]

\* records of _do_save_no_pronoun
NoRecords(row) ==
    << [ID |-> row.ID, sentence_id |-> row.sentence_id, no_pronoun |-> TRUE] >>

\* _save_sentence_and_reload(records) is entered: save_annotations_for_sentence
\* starts with the annotator of this run and the row under the cursor
BeginSave(s, records, and_next, path) ==
    /\ ss' = s
    /\ save' = [pc |-> "delete", path |-> path,
                annotator_id |-> Strip(s.name_input),
                poem_id |-> Row(s).ID, sentence_id |-> Row(s).sentence_id,
                records |-> records, i |-> 1, deleted |-> FALSE, and_next |-> and_next,
                idx |-> Idx(s), total |-> Total(s),
                before |-> db_annotations]
    /\ n_events' = n_events + 1
    /\ notice' = "saving"
    /\ reader' = NoRead
    /\ UNCHANGED <<db_annotations, db_perspectives, px>>

\* "Save (stay)" / "Save and next" with the radio on Yes: _do_save
ClickSave(and_next) ==
    /\ Idle
    /\ YesShown(ss)
    /\ LET s == Render(ss, db_annotations, db_perspectives)
           pronouns == Pronouns(s)
       IN  IF ~HasValid(pronouns) /\ pronouns # <<>>
           THEN /\ ss' = s
                /\ notice' = "warn_enter_pronoun"
                /\ save' = NoSave
                /\ reader' = NoRead
                /\ n_events' = n_events + 1
                /\ UNCHANGED <<db_annotations, db_perspectives, px>>
           ELSE BeginSave(s, YesRecords(pronouns, Row(s)), and_next, "yes")

\* "Save (stay)" / "No pronoun, next" with the radio on No: _do_save_no_pronoun
ClickSaveNoPronoun(and_next) ==
    /\ Idle
    /\ NoShown(ss)
    /\ LET s == Render(ss, db_annotations, db_perspectives)
       IN  BeginSave(s, NoRecords(Row(s)), and_next, "no")

\* the delete request of save_annotations_for_sentence
SaveDelete ==
    /\ save.pc = "delete"
    /\ db_annotations' = DeleteSentenceRows(db_annotations, save.annotator_id,
                                            save.poem_id, save.sentence_id)
    /\ save' = [save EXCEPT !.pc = "insert", !.deleted = TRUE]
    /\ UNCHANGED <<db_perspectives, ss, notice, reader, n_events, px>>

\* one insert request of the loop
SaveInsert ==
    /\ save.pc = "insert"
    /\ save.i <= Len(save.records)
    /\ db_annotations' = Append(db_annotations,
                                InsertedRow(save.annotator_id, save.records[save.i]))
    /\ save' = [save EXCEPT !.i = save.i + 1]
    /\ UNCHANGED <<db_perspectives, ss, notice, reader, n_events, px>>

\* the pending request raises: RuntimeError, caught by the button handler (st.error);
\* the reload and the rerun are skipped and the script runs on to its end
SaveFail ==
    /\ \/ save.pc = "delete"
       \/ save.pc = "insert" /\ save.i <= Len(save.records)
    /\ save' = [save EXCEPT !.pc = "failed"]
    /\ notice' = "save_failed"
    /\ UNCHANGED <<db_annotations, db_perspectives, ss, reader, n_events, px>>

\* the loop is over: reload, reset the in-progress list, st.rerun()
SaveReturn ==
    /\ save.pc = "insert"
    /\ save.i > Len(save.records)
    /\ \E table \in AnnotationsSeen :
          LET s1 == [ss EXCEPT !.annotations = load_annotations(table, save.annotator_id),
                               !.anns_owner = Some(save.annotator_id),
                               !.current_pronouns = Some(<<>>),
                               !.current_sent_key = None]
              s2 == IF save.and_next
                    THEN [s1 EXCEPT !.force_nav_idx = Some(Min(save.idx + 1, save.total - 1))]
                    ELSE s1
          IN  RunScript(s2)

\* a second session of the same annotator loads while the save is in progress
ReaderLoad ==
    /\ save.pc \in {"delete", "insert"}
    /\ reader' = [valid |-> TRUE,
                  rows |-> load_annotations(db_annotations, save.annotator_id)]
    /\ reader' # reader
    /\ UNCHANGED <<db_annotations, db_perspectives, ss, save, notice, n_events, px>>

-----------------------------------------------------------------------------
(* Saving a poem perspective *)

PrimaryInputs == { "1st person", "Mixed" }
SecondaryInputs == { "None", "Other" }

PerspectiveShown(s) ==
    Rendered(s) /\ is_poem_fully_annotated(Row(s).ID, DisplayDf(s), Reviewed(s))

PerspectiveData(row, new_primary, new_secondary) ==
    [perspective_primary |-> new_primary,
     perspective_secondary |-> IF new_secondary # "None" THEN new_secondary ELSE "",
     author |-> row.author, date |-> row.date]

save_poem_perspective(table, annotator_id, poem_id, data) ==
    UpsertPerspective(table, PerspectiveRow(annotator_id, poem_id, data))

\* "Save poem perspective", the upsert succeeds
ClickSavePerspective(new_primary, new_secondary) ==
    /\ Idle
    /\ PerspectiveShown(ss)
    /\ LET s == Render(ss, db_annotations, db_perspectives)
           poem_id == Row(s).ID
           data == PerspectiveData(Row(s), new_primary, new_secondary)
       IN  /\ db_perspectives' = save_poem_perspective(db_perspectives,
                                        Strip(s.name_input), poem_id, data)
           /\ ss' = [s EXCEPT !.poem_perspectives = (poem_id :> data) @@ s.poem_perspectives]
    /\ notice' = "saved"
    /\ n_events' = n_events + 1
    /\ save' = NoSave
    /\ reader' = NoRead
    /\ UNCHANGED <<db_annotations, px>>

\* "Save poem perspective", the upsert raises
ClickSavePerspectiveFail ==
    /\ Idle
    /\ PerspectiveShown(ss)
    /\ ss' = Render(ss, db_annotations, db_perspectives)
    /\ notice' = "save_failed"
    /\ n_events' = n_events + 1
    /\ save' = NoSave
    /\ reader' = NoRead
    /\ UNCHANGED <<db_annotations, db_perspectives, px>>

-----------------------------------------------------------------------------
(* The session with its store *)

Next ==
    \/ \E n \in NameInputs : SetName(n)
    \/ \E i \in 0..Len(SentencesDf) : GoTo(i)
    \/ \E v \in {"Yes", "No"} : SetHasPronoun(v)
    \/ \E i \in 1..MaxPronouns, t \in TextInputs : EditPronounText(i, t)
    \/ \E i \in 1..MaxPronouns, v \in PersonInputs : EditPerson(i, v)
    \/ ClickNext
    \/ ClickAdd
    \/ \E i \in 1..MaxPronouns : ClickDelete(i)
    \/ \E b \in BOOLEAN : ClickSave(b)
    \/ \E b \in BOOLEAN : ClickSaveNoPronoun(b)
    \/ SaveDelete
    \/ SaveInsert
    \/ SaveFail
    \/ SaveReturn
    \/ ReaderLoad
    \/ \E p \in PrimaryInputs, q \in SecondaryInputs : ClickSavePerspective(p, q)
    \/ ClickSavePerspectiveFail

Spec == Init /\ [][Next]_vars

-----------------------------------------------------------------------------
(* The sidebar filters and the cursor *)

\* the options of the "Poem ID" selectbox under an author selection (lines 275-276)
PoemOptions(author_filter) ==
    { "All" } \cup { r.ID : r \in { x \in Range(SentencesDf) : x.author \in author_filter } }

\* The "Author" multiselect is changed.  The selectbox below it has no key and is
\* identified by its options: when they change it is a new widget showing "All".
SetAuthorFilter(f) ==
    /\ Idle
    /\ Strip(ss.name_input) # <<>>
    /\ f # ss.author_filter
    /\ RunScript([ss EXCEPT !.author_filter = f,
                            !.poem_id_filter =
                                IF PoemOptions(f) = PoemOptions(ss.author_filter)
                                THEN @ ELSE "All"])

\* The "Poem ID" selectbox is changed.
SetPoemFilter(p) ==
    /\ Idle
    /\ Strip(ss.name_input) # <<>>
    /\ p \in PoemOptions(ss.author_filter)
    /\ p # ss.poem_id_filter
    /\ RunScript([ss EXCEPT !.poem_id_filter = p])

\* the session as far as the cursor is concerned: filters, navigation, saves
NextNav ==
    \/ \E n \in NameInputs : SetName(n)
    \/ \E f \in SUBSET AllAuthors : SetAuthorFilter(f)
    \/ \E p \in PoemOptions(AllAuthors) : SetPoemFilter(p)
    \/ \E i \in 0..Len(SentencesDf) : GoTo(i)
    \/ ClickNext
    \/ \E v \in {"Yes", "No"} : SetHasPronoun(v)
    \/ \E b \in BOOLEAN : ClickSave(b)
    \/ \E b \in BOOLEAN : ClickSaveNoPronoun(b)
    \/ SaveDelete
    \/ SaveInsert
    \/ SaveFail
    \/ SaveReturn

SpecNav == Init /\ [][NextNav]_vars

-----------------------------------------------------------------------------
(* Properties of the annotations table *)

Annotators == { Strip(n) : n \in NameInputs } \ { <<>> }
Keys == { SentKey(SentencesDf[i]) : i \in 1..Len(SentencesDf) }

RowsFor(table, a, key) == SelectSeq(table, LAMBDA r : RowMatches(r, a, key[1], key[2]))

\* none, exactly one marker, or pronoun rows only
WellFormedRows(rows) ==
    \/ rows = <<>>
    \/ Len(rows) = 1 /\ rows[1].no_pronoun
    \/ \A i \in 1..Len(rows) : ~rows[i].no_pronoun

SaveRunning == save.pc \in {"delete", "insert"}
SaveKey == << save.poem_id, save.sentence_id >>
\* the insert loop is over and save_annotations_for_sentence is about to return
SaveCompleted == save.pc = "insert" /\ save.i > Len(save.records)
SubmittedRows == [i \in 1..Len(save.records) |-> InsertedRow(save.annotator_id, save.records[i])]

\* C1: for every (annotator, poem, sentence) the stored rows are none, exactly one
\* no-pronoun marker, or one or more pronoun rows; a marker and a pronoun row never
\* coexist for a key.  With one writer this holds in every state, also inside a save
\* and after a failed one.
C1_NoMixedRows ==
    \A a \in Annotators, k \in Keys : WellFormedRows(RowsFor(db_annotations, a, k))

\* a completed Yes save has replaced the marker of its sentence by a pronoun row
C1_Witness ==
    /\ SaveCompleted
    /\ save.path = "yes"
    /\ Len(save.records) >= 1
    /\ \E i \in 1..Len(save.before) :
          /\ RowMatches(save.before[i], save.annotator_id, save.poem_id, save.sentence_id)
          /\ save.before[i].no_pronoun

\* C2 (as claimed): a load issued while a save of the same annotator is in progress
\* returns, for the sentence being saved, either all the rows from before the save
\* or all the submitted records.
ForSentence(annotations, key) ==
    SelectSeq(annotations, LAMBDA a : << a.ID, a.sentence_id >> = key)

C2_AtomicForReader ==
    (reader.valid /\ save.pc \in {"delete", "insert", "failed"}) =>
        ForSentence(reader.rows, SaveKey) \in
            { ForSentence(load_annotations(save.before, save.annotator_id), SaveKey),
              [i \in 1..Len(SubmittedRows) |-> LoadedRec(SubmittedRows[i])] }

\* C3: when the save returns, the rows of its key are exactly the submitted records,
\* freshly inserted after every row that was there before (none is updated in
\* place), and every row of another annotator or another sentence is untouched.
C3_ReplaceWholesale ==
    SaveCompleted =>
        /\ RowsFor(db_annotations, save.annotator_id, SaveKey) = SubmittedRows
        /\ db_annotations =
              SelectSeq(save.before,
                        LAMBDA r : ~RowMatches(r, save.annotator_id,
                                               save.poem_id, save.sentence_id))
                  \o SubmittedRows

\* a save returns for a sentence that had rows, next to rows of another sentence
C3_Witness ==
    /\ SaveCompleted
    /\ Len(save.records) >= 1
    /\ RowsFor(save.before, save.annotator_id, SaveKey) # <<>>
    /\ RowsFor(save.before, save.annotator_id, SaveKey) # SubmittedRows
    /\ Len(db_annotations) > Len(save.records)

\* C4 (as claimed): after a save that failed between its delete and its first
\* insert, the store holds no row for the sentence and the sentence is not in the
\* reviewed set of the session.
C4_FailedSaveUnreviewed ==
    (save.pc = "failed" /\ save.deleted /\ save.i = 1) =>
        /\ RowsFor(db_annotations, save.annotator_id, SaveKey) = <<>>
        /\ SaveKey \notin Reviewed(ss)

\* C9: every pronoun row written by the Yes path has non-empty, trimmed text; the
\* submitted records are the non-blank entries of the in-progress list, trimmed;
\* a Save click on a non-empty list whose entries are all blank is rejected with
\* the warning and changes neither the store nor the loaded annotations.
NonBlank(pronouns) ==
    SelectSeq(pronouns, LAMBDA p : Strip(Get(p, "pronoun", <<>>)) # <<>>)

C9_Step ==
    /\ (notice' = "warn_enter_pronoun") =>
          /\ Pronouns(ss') # <<>>
          /\ NonBlank(Pronouns(ss')) = <<>>
          /\ db_annotations' = db_annotations
          /\ ss'.annotations = ss.annotations
          /\ save'.pc = "idle"
    /\ (save.pc \in {"idle", "failed"} /\ save'.pc = "delete" /\ save'.path = "yes") =>
          /\ Len(save'.records) = Len(NonBlank(Pronouns(ss')))
          /\ \A i \in 1..Len(save'.records) :
                save'.records[i].pronoun = Strip(NonBlank(Pronouns(ss'))[i].pronoun)
          /\ (Pronouns(ss') = <<>> \/ save'.records # <<>>)
    /\ \A i \in 1..Len(db_annotations') :
          ~db_annotations'[i].no_pronoun =>
              /\ db_annotations'[i].pronoun # <<>>
              /\ Strip(db_annotations'[i].pronoun) = db_annotations'[i].pronoun

C9_NonBlankPronouns == [][C9_Step]_vars

\* a Yes save that dropped a blank entry and wrote a trimmed one
C9_Witness ==
    /\ SaveCompleted
    /\ save.path = "yes"
    /\ Len(save.records) >= 1
    /\ Len(save.records) < Len(Pronouns(ss))
    /\ \E i \in 1..Len(Pronouns(ss)) :
          /\ Strip(Pronouns(ss)[i].pronoun) # <<>>
          /\ Strip(Pronouns(ss)[i].pronoun) # Pronouns(ss)[i].pronoun

\* C10 (as claimed): whenever the page is rendered, the loaded annotations and poem
\* perspectives were loaded for the annotator name now entered.
C10_LoadedForCurrentAnnotator ==
    Rendered(ss) =>
        /\ ss.anns_owner = Some(Strip(ss.name_input))
        /\ ss.persp_owner = Some(Strip(ss.name_input))

-----------------------------------------------------------------------------
(* Properties of the poem_perspectives table *)

PairRows(table, a, poem) == { r \in table : r.annotator_id = a /\ r.poem_id = poem }

AtMostOnePerPair(table) ==
    \A r1, r2 \in table :
        (r1.annotator_id = r2.annotator_id /\ r1.poem_id = r2.poem_id) => r1 = r2

\* a step that changes the table is a save of the poem under the cursor by the
\* annotator of the run; afterwards the pair has the one row carrying the saved
\* values and every other row is as before
C8_Step ==
    /\ AtMostOnePerPair(db_perspectives')
    /\ (db_perspectives' # db_perspectives) =>
          LET a == Strip(ss.name_input)
              poem == Row(ss).ID
          IN  /\ notice' = "saved"
              /\ poem \in DOMAIN ss'.poem_perspectives
              /\ PairRows(db_perspectives', a, poem) =
                    { PerspectiveRow(a, poem, ss'.poem_perspectives[poem]) }
              /\ db_perspectives' \ PairRows(db_perspectives', a, poem) =
                    db_perspectives \ PairRows(db_perspectives, a, poem)

\* C8: the poem_perspectives table holds at most one row per (annotator, poem); a
\* save leaves the pair with the row of the values just saved and changes no
\* other pair.
C8_UpsertByPair == AtMostOnePerPair(db_perspectives) /\ [][C8_Step]_vars

\* a perspective was just saved and the table holds the rows of two pairs
C8_Witness ==
    /\ notice = "saved"
    /\ Cardinality(db_perspectives) = 2

-----------------------------------------------------------------------------
(* The progress and export functions on loaded annotation lists *)

\* Loaded records: markers and pronoun rows of sentences of the file, and pronoun
\* rows of a sentence that is not in the file (poem P9).
PronounRec(poem, sid, lemma, person, number, dropped) ==
    [ID |-> poem, sentence_id |-> sid, no_pronoun |-> FALSE,
     pronoun |-> <<"y">>, lemma |-> lemma, person |-> person, number |-> number,
     is_dropped |-> dropped, position |-> sid]

AnnotPool ==
    { [ID |-> "P1", sentence_id |-> 0, no_pronoun |-> TRUE],
      [ID |-> "P2", sentence_id |-> 0, no_pronoun |-> TRUE],
      PronounRec("P1", 0, <<"y">>, "1st", "Singular", TRUE),
      PronounRec("P1", 1, <<"y">>, "1st", "Singular", TRUE),
      PronounRec("P1", 1, <<"m">>, "3rd", "None", FALSE),
      PronounRec("P2", 0, <<"m">>, "Impersonal", "Plural", FALSE),
      PronounRec("P9", 0, <<"y">>, "1st", "Singular", TRUE) }

RECURSIVE SeqsUpTo(_, _)
SeqsUpTo(S, n) ==
    IF n = 0 THEN { <<>> }
    ELSE LET shorter == SeqsUpTo(S, n - 1)
         IN  shorter \cup { Append(q, x) : q \in shorter, x \in S }

InitPure ==
    /\ db_annotations = <<>>
    /\ db_perspectives = {}
    /\ ss = Stopped(InitSession)
    /\ save = NoSave
    /\ notice = "stop"
    /\ reader = NoRead
    /\ n_events = 0
    /\ \E annotations \in SeqsUpTo(AnnotPool, MaxAnnots),
          author_filter \in SUBSET AllAuthors,
          poem_id_filter \in {"All"} \cup { SentencesDf[i].ID : i \in 1..Len(SentencesDf) } :
          /\ poem_id_filter = "All"
                \/ \E i \in 1..Len(SentencesDf) :
                      /\ SentencesDf[i].ID = poem_id_filter
                      /\ SentencesDf[i].author \in author_filter
          /\ px = [pc |-> "input", annotations |-> annotations,
                   author_filter |-> author_filter, poem_id_filter |-> poem_id_filter]

PoemsInView(display_df) == { display_df[i].ID : i \in 1..Len(display_df) }

\* lines 267 and 286: the reviewed set and the poems counted as fully annotated
PureProgress ==
    /\ px.pc = "input"
    /\ LET display_df == DisplayDf(px)
           reviewed == get_reviewed_sentences(px.annotations)
       IN  px' = [pc |-> "progress", annotations |-> px.annotations,
                  author_filter |-> px.author_filter,
                  poem_id_filter |-> px.poem_id_filter,
                  reviewed |-> reviewed,
                  poems_done |-> { pid \in PoemsInView(display_df) :
                                     is_poem_fully_annotated(pid, display_df, reviewed) }]
    /\ UNCHANGED <<db_annotations, db_perspectives, ss, save, notice, reader, n_events>>

\* line 457
PureExport ==
    /\ px.pc = "input"
    /\ px' = [pc |-> "exported", annotations |-> px.annotations,
              csv |-> build_export_csv(px.annotations, SentencesDf)]
    /\ UNCHANGED <<db_annotations, db_perspectives, ss, save, notice, reader, n_events>>

\* the exported file is read back
PureReimport ==
    /\ px.pc = "exported"
    /\ px' = [pc |-> "imported", annotations |-> px.annotations,
              rows |-> ReimportCsv(px.csv)]
    /\ UNCHANGED <<db_annotations, db_perspectives, ss, save, notice, reader, n_events>>

NextPure == PureProgress \/ PureExport \/ PureReimport

SpecPure == InitPure /\ [][NextPure]_vars

-----------------------------------------------------------------------------
(* Properties of the progress and export functions *)

HasRow(annotations, poem, sid) ==
    \E i \in 1..Len(annotations) :
        annotations[i].ID = poem /\ annotations[i].sentence_id = sid

SentencesOf(poem) == { i \in 1..Len(SentencesDf) : SentencesDf[i].ID = poem }

\* C5: the reviewed set is the set of keys with at least one loaded row (pronoun
\* row or marker), and a poem in view is counted as fully annotated iff every
\* sentence_id of the poem is in the reviewed set, paired with the poem ID.
C5_FullyAnnotatedIff ==
    (px.pc = "progress") =>
        /\ \A poem \in {"P1", "P2", "P9"}, sid \in 0..1 :
              (<< poem, sid >> \in px.reviewed) <=> HasRow(px.annotations, poem, sid)
        /\ \A k \in px.reviewed : HasRow(px.annotations, k[1], k[2])
        /\ \A pid \in PoemsInView(DisplayDf(px)) :
              (pid \in px.poems_done) <=>
                  \A i \in SentencesOf(pid) :
                      << pid, SentencesDf[i].sentence_id >> \in px.reviewed

\* a poem of two sentences is fully annotated by a marker and a pronoun row, the
\* other poem in view is not
C5_Witness ==
    /\ px.pc = "progress"
    /\ px.poems_done = {"P1"}
    /\ PoemsInView(DisplayDf(px)) = {"P1", "P2"}
    /\ \E i \in 1..Len(px.annotations) : px.annotations[i].no_pronoun
    /\ \E i \in 1..Len(px.annotations) : ~px.annotations[i].no_pronoun

PronounAnnots(annotations) == SelectSeq(annotations, LAMBDA a : ~a.no_pronoun)
InFile(a) == \E i \in 1..Len(SentencesDf) : SentKey(SentencesDf[i]) = << a.ID, a.sentence_id >>
MatchedPronounAnnots(annotations) == SelectSeq(PronounAnnots(annotations), InFile)

\* C6: the file is empty exactly when there is no pronoun annotation; otherwise
\* its header is OUTPUT_COLUMNS in order, every line has one cell per column, and
\* the lines after the header are, in order, the pronoun annotations whose
\* (poem ID, sentence_id) is a sentence of the file: no line for a marker.
C6_ExportRowsAndColumns ==
    (px.pc = "exported") =>
        LET expected == MatchedPronounAnnots(px.annotations)
        IN  /\ (px.csv = <<>>) <=> (PronounAnnots(px.annotations) = <<>>)
            /\ (px.csv # <<>>) =>
                  /\ px.csv[1] = OUTPUT_COLUMNS
                  /\ Len(px.csv) = 1 + Len(expected)
                  /\ \A i \in 1..Len(expected) :
                        /\ Len(px.csv[i + 1]) = Len(OUTPUT_COLUMNS)
                        /\ px.csv[i + 1][1] = expected[i].ID
                        /\ px.csv[i + 1][7] = expected[i].pronoun
                        /\ px.csv[i + 1][8] = expected[i].lemma
                        /\ px.csv[i + 1][10] = ToString(expected[i].position)

\* an export of a marker, a pronoun row of the file and a pronoun row outside it
C6_Witness ==
    /\ px.pc = "exported"
    /\ Len(px.csv) = 2
    /\ \E i \in 1..Len(px.annotations) : px.annotations[i].no_pronoun
    /\ \E i \in 1..Len(px.annotations) :
          ~px.annotations[i].no_pronoun /\ ~InFile(px.annotations[i])

\* a pronoun annotation as the row the file can carry: the sentence is its text
SentenceText(a) ==
    IF InFile(a)
    THEN SentencesDf[CHOOSE i \in 1..Len(SentencesDf) :
                        SentKey(SentencesDf[i]) = << a.ID, a.sentence_id >>].sentence
    ELSE "?"

PronounRow(a) ==
    [ID |-> a.ID, sentence |-> SentenceText(a), pronoun |-> a.pronoun,
     lemma |-> a.lemma, person |-> a.person, number |-> a.number,
     is_dropped |-> a.is_dropped, position |-> a.position]

PronounRowsOf(annots) == [i \in 1..Len(annots) |-> PronounRow(annots[i])]

\* C7 (as claimed): reading the exported file back yields the pronoun rows of the
\* annotations, none lost, duplicated or altered.
C7_RoundTripAll ==
    (px.pc = "imported") => px.rows = PronounRowsOf(PronounAnnots(px.annotations))

\* C7 (amended): reading the exported file back yields, in order and unaltered,
\* the pronoun rows of the annotations whose (poem ID, sentence_id) is a sentence
\* of the loaded sentence file; pronoun rows of other sentences are left out.
C7_RoundTripMatched ==
    (px.pc = "imported") => px.rows = PronounRowsOf(MatchedPronounAnnots(px.annotations))

\* two pronoun rows of the file with different field values made the round trip
C7_Witness ==
    /\ px.pc = "imported"
    /\ Len(px.rows) = 2
    /\ px.rows[1] # px.rows[2]
    /\ \E i \in 1..2 : ~px.rows[i].is_dropped /\ px.rows[i].lemma # px.rows[i].pronoun

-----------------------------------------------------------------------------
(* Properties of the cursor *)

\* C11: after any sequence of filter changes, "Go to sentence" inputs, "Next"
\* clicks and save-and-next actions, the navigation index of the session is
\* within 0..max(0, total - 1), total being the size of the filtered view.
C11_NavIndexInRange ==
    ss.nav_idx # None =>
        /\ Idx(ss) >= 0
        /\ Idx(ss) <= Max(0, Total(ss) - 1)

-----------------------------------------------------------------------------
(* Properties of the in-progress pronoun list *)

\* C12: clicking "Delete" on entry i of the in-progress list of the current
\* sentence removes that entry: on the following render the list is the previous
\* list without entry i, every other entry (added but unsaved ones included)
\* being retained.
C12_Step ==
    \A i \in 1..MaxPronouns :
        ClickDelete(i) => ss'.current_pronouns = Some(RemoveAt(Pronouns(ss), i))

C12_DeleteRemovesEntry == [][C12_Step]_vars

====
